---- MODULE Spec2Model ----
(***************************************************************************)
(* Price inference engine of the Drug Tariff processor                     *)
(* (src/Drug Tariff Master/src/calculator/calculator.py), run against the  *)
(* SQLite store created by src/database/schema.py and filled by            *)
(* src/database/loader.py.                                                 *)
(*                                                                         *)
(* Numbers: prices are integer pence.  confidence_score is kept in         *)
(* thousandths (0.9 is 900).  Quantities and strengths are REAL columns;   *)
(* the model uses integral values and exact rational arithmetic, and       *)
(* round() is Python's round-half-to-even.                                 *)
(***************************************************************************)
EXTENDS Integers, Sequences, FiniteSets, TLC

\* ------------------------------------------------------------------ bounds
\* Number of consecutive invocations of calculate_missing_prices.
MaxRuns == 2
\* Number of injected failures (sqlite3.Error / exception) per behaviour.
MaxFaults == 1
\* The largest --retries the caller passes.
MaxRetries == 4
\* Number of consecutive invocations when the engine is repeated on a store
\* that nothing else touches.
MaxRepeats == 4

\* --------------------------------------------------------------- constants
\* SQL NULL / Python None: Null in a numeric column, None in a text column.
\* (No price, code, quantity or date of the store is negative.)
Null == -1
None == "None"
\* No row for the pack in a one-column side table.
NoRow == -2

CALCULATION_METHODS ==
    [SAME_PRODUCT_DIFFERENT_SIZE |-> "same_product_different_size",
     SAME_VMPP_DIFFERENT_BRAND |-> "same_vmpp_different_brand",
     SIMILAR_VMP |-> "similar_vmp",
     DEFAULT |-> "default"]

MISSING_PRICE_REASONS ==
    [NON_REIMBURSABLE |-> "non_reimbursable",
     DISCONTINUED |-> "discontinued",
     HOSPITAL_ONLY |-> "hospital_only",
     NOT_AVAILABLE |-> "not_available",
     UNKNOWN |-> "unknown"]

PRICE_STATUS ==
    [CALCULATED |-> "calculated",
     INTENTIONALLY_MISSING |-> "intentionally_missing",
     UNKNOWN |-> "unknown"]

\* reimb_stat_code values taken as reimbursable by _check_missing_price_reason
ReimbursableCodes == {1, 11}
\* avail_restrict_code meaning "available"
AvailableCode == 1
\* price_basis_code written by the classifier / by the writer
BasisIntentionallyMissing == 4
BasisCalculated == 3
\* LIMIT of the similar-VMP query
SimilarLimit == 5

\* ----------------------------------------------------------------- helpers
Abs(x) == IF x < 0 THEN -x ELSE x
Min2(a, b) == IF a <= b THEN a ELSE b
Max2(a, b) == IF a >= b THEN a ELSE b

RECURSIVE Gcd(_, _)
Gcd(a, b) == IF b = 0 THEN a ELSE Gcd(b, a % b)

\* A non-negative rational <<n, d>> in lowest terms, d > 0.
Frac(n, d) == LET g == Gcd(n, d) IN IF g = 0 THEN <<0, 1>> ELSE <<n \div g, d \div g>>
FracAdd(x, y) == Frac(x[1] * y[2] + y[1] * x[2], x[2] * y[2])

\* Python 3 round(n/d) for n >= 0, d > 0: nearest integer, halves to even.
round(n, d) ==
    LET q == n \div d
        r == n % d
    IN  IF 2 * r < d THEN q
        ELSE IF 2 * r > d THEN q + 1
        ELSE IF q % 2 = 0 THEN q ELSE q + 1

\* Python truthiness of a number-or-None.
Truthy(x) == x /= Null /\ x /= 0

\* SQL "p.price IS NOT NULL AND p.price > 0" on a row of ampp_price_info
\* (an inner JOIN drops packs without a row).
Priced(P, a) == P[a].exists /\ P[a].price /= Null /\ P[a].price > 0

\* ------------------------------------------------------------- price rows
\* Row of ampp_price_info as the loader writes it (parse_ampp): the
\* calculation columns do not exist yet / are NULL.
LoaderRow(price) ==
    [exists |-> TRUE,
     price |-> price, price_prev |-> Null, price_date |-> Null,
     price_basis_code |-> 1, calculation_method |-> None,
     price_status |-> None, missing_reason |-> None,
     confidence_score |-> Null, calculation_date |-> Null]

\* A pack without a row in ampp_price_info: every column reads as NULL
\* through a LEFT JOIN or a scalar subquery.
AbsentRow ==
    [exists |-> FALSE,
     price |-> Null, price_prev |-> Null, price_date |-> Null,
     price_basis_code |-> Null, calculation_method |-> None,
     price_status |-> None, missing_reason |-> None,
     confidence_score |-> Null, calculation_date |-> Null]

NoMatch == [price |-> Null, method |-> None, confidence |-> Null]

\* --------------------------------------------------------------- catalogue
\* The product hierarchy C is what the loader left in the store:
\*   C.ampp[a]   = [apid, vppid, disc_code, disc_date]   table ampp
\*   C.amp[x]    = [vpid, avail_restrict_code]           table amp
\*   C.vmpp[v]   = [vpid, qty_value, qty_uom_code]       table vmpp
\*   C.pack_info[a]     = reimb_stat_code or NoRow       table ampp_pack_info
\*   C.prescrib_info[a] = hosp or NoRow                  table ampp_prescrib_info
\*   C.vmp_ingredient[p] = sequence of [name, strength, uom_code] (joined
\*                         with ingredient), in stored order
\*   C.vmp_form[p]       = sequence of form_code
AmppIds(C) == DOMAIN C.ampp

\* ampp JOIN vmpp (JOIN amp) WHERE ampp.appid = ?  -- the target row, if any
HasVmpp(C, a) == C.ampp[a].vppid \in DOMAIN C.vmpp
HasAmp(C, a) == C.ampp[a].apid \in DOMAIN C.amp
pack_size(C, a) == C.vmpp[C.ampp[a].vppid].qty_value
qty_uom_code(C, a) == C.vmpp[C.ampp[a].vppid].qty_uom_code

\* ------------------------------------------- rule A: same product, other size
\* Rows of the comparables query of _try_same_product_different_size.
SameProductComparables(C, P, appid) ==
    {a \in AmppIds(C) :
        /\ C.ampp[a].apid = C.ampp[appid].apid
        /\ a /= appid
        /\ HasVmpp(C, a)
        /\ Priced(P, a)
        /\ qty_uom_code(C, a) = qty_uom_code(C, appid)}

SizeDistance(C, a, appid) == Abs(pack_size(C, a) - pack_size(C, appid))

\* The rows that may come first under ORDER BY ABS(v.qty_value - ?) ASC: the
\* query names no second sort key, so any row at the least distance can be
\* comparables[0].
SameProductFirstRows(C, P, appid) ==
    LET rows == SameProductComparables(C, P, appid)
    IN  {a \in rows : \A b \in rows : SizeDistance(C, a, appid) <= SizeDistance(C, b, appid)}

\* Result of the rule once comparables[0] = comparable.
SameProductEstimate(C, P, appid, comparable) ==
    LET size == pack_size(C, comparable)
        price == P[comparable].price
        target_pack_size == pack_size(C, appid)
    IN  IF size <= 0 \/ target_pack_size <= 0 THEN NoMatch
        ELSE [price |-> round(price * target_pack_size, size),
              method |-> CALCULATION_METHODS.SAME_PRODUCT_DIFFERENT_SIZE,
              confidence |-> (900 * Min2(size, target_pack_size))
                                 \div Max2(size, target_pack_size)]

\* The set of results _try_same_product_different_size can return.
try_same_product_different_size(C, P, appid) ==
    IF ~HasVmpp(C, appid) THEN {NoMatch}
    ELSE IF SameProductComparables(C, P, appid) = {} THEN {NoMatch}
    ELSE {SameProductEstimate(C, P, appid, c) : c \in SameProductFirstRows(C, P, appid)}

\* ------------------------------------------- rule B: same VMPP, other brand
SameVmppComparables(C, P, appid) ==
    {a \in AmppIds(C) :
        /\ C.ampp[a].vppid = C.ampp[appid].vppid
        /\ a /= appid
        /\ Priced(P, a)}

RECURSIVE SumPrices(_, _)
SumPrices(P, S) ==
    IF S = {} THEN 0
    ELSE LET a == CHOOSE x \in S : TRUE IN P[a].price + SumPrices(P, S \ {a})

RECURSIVE SumSquares(_, _, _)
SumSquares(P, S, avg) ==
    IF S = {} THEN 0
    ELSE LET a == CHOOSE x \in S : TRUE
         IN  (P[a].price - avg) * (P[a].price - avg) + SumSquares(P, S \ {a}, avg)

\* min(std_dev / avg_price, 0.5) in hundredths, std_dev the population
\* deviation around the rounded mean; truncated to two decimals.
SpreadHundredths(P, S, avg) ==
    LET n == Cardinality(S)
        ss == SumSquares(P, S, avg)
    IN  IF 4 * ss >= n * avg * avg THEN 50
        ELSE CHOOSE r \in 0..50 :
                /\ r * r * n * avg * avg <= 10000 * ss
                /\ (r + 1) * (r + 1) * n * avg * avg > 10000 * ss

try_same_vmpp_different_brand(C, P, appid) ==
    IF ~HasVmpp(C, appid) THEN NoMatch
    ELSE LET comparables == SameVmppComparables(C, P, appid)
             n == Cardinality(comparables)
         IN  IF comparables = {} THEN NoMatch
             ELSE LET avg_price == round(SumPrices(P, comparables), n)
                  IN  IF avg_price <= 0 THEN NoMatch
                      ELSE [price |-> avg_price,
                            method |-> CALCULATION_METHODS.SAME_VMPP_DIFFERENT_BRAND,
                            confidence |->
                               (700 * Min2(5, n) * (100 - SpreadHundredths(P, comparables, avg_price)))
                                   \div 500]

\* ------------------------------------------------- rule C: similar VMP
\* Raised inside a rule (caught by the try/except around it in
\* _calculate_price_for_ampp).
RuleRaised == [price |-> Null, method |-> None, confidence |-> Null]

IngredientsOf(C, vpid) ==
    IF vpid \in DOMAIN C.vmp_ingredient THEN C.vmp_ingredient[vpid] ELSE << >>
FormsOf(C, vpid) ==
    IF vpid \in DOMAIN C.vmp_form THEN C.vmp_form[vpid] ELSE << >>
VpidOf(C, a) == C.amp[C.ampp[a].apid].vpid

\* name LIKE '%pattern%': the pattern occurs inside the name.  Names are
\* sequences of letters.
Like(name, pattern) ==
    \E i \in 0..(Len(name) - Len(pattern)) : SubSeq(name, i + 1, i + Len(pattern)) = pattern

\* Rows of the similar-VMP query before ORDER BY / LIMIT: one row per
\* (pack a2, vmp_ingredient row k, vmp_form row f) passing the WHERE clause.
SimilarRows(C, P, appid, main) ==
    UNION {
        {[appid |-> a2, k |-> k, f |-> f] :
            k \in {i \in 1..Len(IngredientsOf(C, VpidOf(C, a2))) :
                    /\ Like(IngredientsOf(C, VpidOf(C, a2))[i].name, main.name)
                    /\ main.uom_code /= Null
                    /\ IngredientsOf(C, VpidOf(C, a2))[i].uom_code = main.uom_code},
            f \in {j \in 1..Len(FormsOf(C, VpidOf(C, a2))) :
                    FormsOf(C, VpidOf(C, a2))[j] = main.form}} :
        a2 \in {a \in AmppIds(C) \ {appid} :
                  /\ HasAmp(C, a) /\ HasVmpp(C, a)
                  /\ Priced(P, a)
                  /\ qty_uom_code(C, a) = qty_uom_code(C, appid)}}

\* Numerator of strength_diff = ABS(strnt_nmrtr_val - ?) / ?; the divisor
\* max(1, main_strength) is the same for every row.  NULL for a NULL strength.
StrengthGap(C, r, main) ==
    LET s == IngredientsOf(C, VpidOf(C, r.appid))[r.k].strength
    IN  IF s = Null THEN Null ELSE Abs(s - main.strength)

\* r sorts no later than q under ORDER BY strength_diff ASC, ABS(qty - ?) ASC
\* (SQLite puts NULL first).
SimilarKeyLE(C, appid, main, r, q) ==
    LET gr == StrengthGap(C, r, main)
        gq == StrengthGap(C, q, main)
        dr == SizeDistance(C, r.appid, appid)
        dq == SizeDistance(C, q.appid, appid)
    IN  IF gr = Null THEN (gq /= Null \/ dr <= dq)
        ELSE IF gq = Null THEN FALSE
        ELSE gr < gq \/ (gr = gq /\ dr <= dq)

\* The row sets LIMIT 5 can keep: a prefix of some order compatible with the keys.
SimilarTopRows(C, P, appid, main) ==
    LET rows == SimilarRows(C, P, appid, main)
        n == Min2(SimilarLimit, Cardinality(rows))
    IN  {S \in SUBSET rows :
            /\ Cardinality(S) = n
            /\ \A r \in S : \A q \in rows \ S : SimilarKeyLE(C, appid, main, r, q)}

\* sum over the usable rows of weight and of unit_price * weight, where
\* weight = 1 / (1 + strength_diff) = m / (m + gap), m = max(1, main_strength);
\* both sums are kept divided by m.
RECURSIVE SumWeights(_, _, _, _)
SumWeights(C, S, main, m) ==
    IF S = {} THEN <<0, 1>>
    ELSE LET r == CHOOSE x \in S : TRUE
         IN  FracAdd(Frac(1, m + StrengthGap(C, r, main)), SumWeights(C, S \ {r}, main, m))

RECURSIVE SumWeightedUnitPrices(_, _, _, _, _)
SumWeightedUnitPrices(C, P, S, main, m) ==
    IF S = {} THEN <<0, 1>>
    ELSE LET r == CHOOSE x \in S : TRUE
         IN  FracAdd(Frac(P[r.appid].price,
                          pack_size(C, r.appid) * (m + StrengthGap(C, r, main))),
                     SumWeightedUnitPrices(C, P, S \ {r}, main, m))

\* Result of the rule once the query returned the rows S with first row first.
SimilarEstimate(C, P, appid, main, S, first) ==
    LET m == Max2(1, main.strength)
        usable == {r \in S : pack_size(C, r.appid) > 0 /\ StrengthGap(C, r, main) /= Null}
        total_units == SumWeights(C, usable, main, m)
        total_price == SumWeightedUnitPrices(C, P, usable, main, m)
        target_pack_size == pack_size(C, appid)
    IN  IF usable = {} \/ target_pack_size <= 0 THEN NoMatch
        ELSE [price |-> round(target_pack_size * total_price[1] * total_units[2],
                              total_price[2] * total_units[1]),
              method |-> CALCULATION_METHODS.SIMILAR_VMP,
              confidence |-> IF StrengthGap(C, first, main) /= Null
                             THEN (500 * m) \div (m + StrengthGap(C, first, main))
                             ELSE 300]

\* The set of results _try_similar_vmp can return.
try_similar_vmp(C, P, appid) ==
    IF ~(HasAmp(C, appid) /\ HasVmpp(C, appid)) THEN {NoMatch}
    ELSE LET ingredients == IngredientsOf(C, VpidOf(C, appid))
             forms == FormsOf(C, VpidOf(C, appid))
         IN  IF ingredients = << >> \/ forms = << >> THEN {NoMatch}
             ELSE IF ingredients[1].strength = Null THEN {RuleRaised}  \* max(1, None)
             ELSE LET main == [name |-> ingredients[1].name,
                               strength |-> ingredients[1].strength,
                               uom_code |-> ingredients[1].uom_code,
                               form |-> forms[1]]
                  IN  IF SimilarRows(C, P, appid, main) = {} THEN {NoMatch}
                      ELSE {SimilarEstimate(C, P, appid, main, S, first) :
                               <<S, first>> \in
                                  {x \in SimilarTopRows(C, P, appid, main) \X
                                         SimilarRows(C, P, appid, main) :
                                      /\ x[2] \in x[1]
                                      /\ \A q \in x[1] :
                                            SimilarKeyLE(C, appid, main, x[2], q)}}

\* ------------------------------------------------------------- the cascade
\* Variant of calculate_price_for_ampp that tries rule B before rule A.
calculate_price_for_ampp_brand_first(C, P, appid, fault) ==
    LET Afterwards(first, rest) ==
            UNION {IF Truthy(r.price) THEN {[price |-> r.price, method |-> r.method]}
                   ELSE rest : r \in first}
        ruleA == IF fault = "A" THEN {RuleRaised}
                 ELSE try_same_product_different_size(C, P, appid)
        ruleB == IF fault = "B" THEN {RuleRaised}
                 ELSE {try_same_vmpp_different_brand(C, P, appid)}
        ruleC == IF fault = "C" THEN {RuleRaised}
                 ELSE try_similar_vmp(C, P, appid)
        none == {[price |-> Null, method |-> None]}
    IN  Afterwards(ruleB, Afterwards(ruleA, Afterwards(ruleC, none)))

\* Variant of calculate_price_for_ampp whose "if price:" tests are
\* "if price is not None:".
calculate_price_for_ampp_zero_is_a_price(C, P, appid, fault) ==
    LET Afterwards(first, rest) ==
            UNION {IF r.price /= Null THEN {[price |-> r.price, method |-> r.method]}
                   ELSE rest : r \in first}
        ruleA == IF fault = "A" THEN {RuleRaised}
                 ELSE try_same_product_different_size(C, P, appid)
        ruleB == IF fault = "B" THEN {RuleRaised}
                 ELSE {try_same_vmpp_different_brand(C, P, appid)}
        ruleC == IF fault = "C" THEN {RuleRaised}
                 ELSE try_similar_vmp(C, P, appid)
        none == {[price |-> Null, method |-> None]}
    IN  Afterwards(ruleA, Afterwards(ruleB, Afterwards(ruleC, none)))

\* The set of (price, method) pairs _calculate_price_for_ampp can return;
\* fault names the rule, if any, whose query raises an injected error.
calculate_price_for_ampp(C, P, appid, fault) ==
    LET Afterwards(first, rest) ==
            UNION {IF Truthy(r.price) THEN {[price |-> r.price, method |-> r.method]}
                   ELSE rest : r \in first}
        ruleA == IF fault = "A" THEN {RuleRaised}
                 ELSE try_same_product_different_size(C, P, appid)
        ruleB == IF fault = "B" THEN {RuleRaised}
                 ELSE {try_same_vmpp_different_brand(C, P, appid)}
        ruleC == IF fault = "C" THEN {RuleRaised}
                 ELSE try_similar_vmp(C, P, appid)
        none == {[price |-> Null, method |-> None]}
    IN  Afterwards(ruleA, Afterwards(ruleB, Afterwards(ruleC, none)))

\* ---------------------------------------------------------- classification
\* Variant of check_missing_price_reason with the hospital-only check placed
\* before the discontinuation check.
check_missing_price_reason_hospital_first(C, appid) ==
    IF C.pack_info[appid] /= NoRow /\ C.pack_info[appid] \notin ReimbursableCodes
    THEN MISSING_PRICE_REASONS.NON_REIMBURSABLE
    ELSE IF C.prescrib_info[appid] /= NoRow /\ C.prescrib_info[appid] = 1
    THEN MISSING_PRICE_REASONS.HOSPITAL_ONLY
    ELSE IF C.ampp[appid].disc_code /= Null
    THEN MISSING_PRICE_REASONS.DISCONTINUED
    ELSE IF HasAmp(C, appid)
            /\ C.amp[C.ampp[appid].apid].avail_restrict_code /= Null
            /\ C.amp[C.ampp[appid].apid].avail_restrict_code /= AvailableCode
    THEN MISSING_PRICE_REASONS.NOT_AVAILABLE
    ELSE MISSING_PRICE_REASONS.UNKNOWN

check_missing_price_reason(C, appid) ==
    IF C.pack_info[appid] /= NoRow /\ C.pack_info[appid] \notin ReimbursableCodes
    THEN MISSING_PRICE_REASONS.NON_REIMBURSABLE
    ELSE IF C.ampp[appid].disc_code /= Null
    THEN MISSING_PRICE_REASONS.DISCONTINUED
    ELSE IF C.prescrib_info[appid] /= NoRow /\ C.prescrib_info[appid] = 1
    THEN MISSING_PRICE_REASONS.HOSPITAL_ONLY
    ELSE IF HasAmp(C, appid)
            /\ C.amp[C.ampp[appid].apid].avail_restrict_code /= Null
            /\ C.amp[C.ampp[appid].apid].avail_restrict_code /= AvailableCode
    THEN MISSING_PRICE_REASONS.NOT_AVAILABLE
    ELSE MISSING_PRICE_REASONS.UNKNOWN

\* Variant of missing_price_ampp whose WHERE clause lets every pack through.
missing_price_ampp_every_pack(C, P) == AmppIds(C)

\* Variant of missing_price_ampp that also selects the packs whose price was
\* calculated.
missing_price_ampp_and_calculated(C, P) ==
    {a \in AmppIds(C) : \/ ~P[a].exists \/ P[a].price = Null \/ P[a].price = 0
                         \/ P[a].price_status = PRICE_STATUS.CALCULATED}

\* SELECT ... WHERE p.price IS NULL OR p.price = 0 OR p.appid IS NULL
missing_price_ampp(C, P) ==
    {a \in AmppIds(C) : ~P[a].exists \/ P[a].price = Null \/ P[a].price = 0}

\* INSERT ... ON CONFLICT(appid) DO UPDATE of _classify_missing_prices
IntentionallyMissingRow(row, reason, today) ==
    IF ~row.exists
    THEN [exists |-> TRUE,
          price |-> Null, price_prev |-> Null, price_date |-> Null,
          price_basis_code |-> BasisIntentionallyMissing,
          calculation_method |-> None,
          price_status |-> PRICE_STATUS.INTENTIONALLY_MISSING,
          missing_reason |-> reason,
          confidence_score |-> Null, calculation_date |-> today]
    ELSE [row EXCEPT !.price_status = PRICE_STATUS.INTENTIONALLY_MISSING,
                     !.missing_reason = reason,
                     !.calculation_date = today]

\* The price table after _classify_missing_prices.
classify_missing_prices(C, P, today) ==
    [a \in AmppIds(C) |->
        IF a \in missing_price_ampp(C, P)
           /\ check_missing_price_reason(C, a) /= MISSING_PRICE_REASONS.UNKNOWN
        THEN IntentionallyMissingRow(P[a], check_missing_price_reason(C, a), today)
        ELSE P[a]]

\* ------------------------------------------------------------------ writer
confidence_scores(method) ==
    IF method = CALCULATION_METHODS.SAME_PRODUCT_DIFFERENT_SIZE THEN 900
    ELSE IF method = CALCULATION_METHODS.SAME_VMPP_DIFFERENT_BRAND THEN 700
    ELSE IF method = CALCULATION_METHODS.SIMILAR_VMP THEN 500
    ELSE IF method = CALCULATION_METHODS.DEFAULT THEN 300
    ELSE 500

\* Variant of update_ampp_price whose DO UPDATE clause leaves price_prev as
\* it was.
update_ampp_price_keeps_prev(row, price, method, today) ==
    IF ~row.exists
    THEN [exists |-> TRUE,
          price |-> price, price_prev |-> Null, price_date |-> today,
          price_basis_code |-> BasisCalculated,
          calculation_method |-> method,
          price_status |-> PRICE_STATUS.CALCULATED,
          missing_reason |-> None,
          confidence_score |-> confidence_scores(method),
          calculation_date |-> today]
    ELSE [row EXCEPT !.price = price,
                     !.price_date = today,
                     !.calculation_method = method,
                     !.price_status = PRICE_STATUS.CALCULATED,
                     !.confidence_score = confidence_scores(method),
                     !.calculation_date = today]

\* Variant of update_ampp_price whose DO UPDATE clause leaves
\* calculation_method as it was.
update_ampp_price_keeps_method(row, price, method, today) ==
    IF ~row.exists
    THEN [exists |-> TRUE,
          price |-> price, price_prev |-> Null, price_date |-> today,
          price_basis_code |-> BasisCalculated,
          calculation_method |-> method,
          price_status |-> PRICE_STATUS.CALCULATED,
          missing_reason |-> None,
          confidence_score |-> confidence_scores(method),
          calculation_date |-> today]
    ELSE [row EXCEPT !.price_prev = row.price,
                     !.price = price,
                     !.price_date = today,
                     !.price_status = PRICE_STATUS.CALCULATED,
                     !.confidence_score = confidence_scores(method),
                     !.calculation_date = today]

\* INSERT ... ON CONFLICT(appid) DO UPDATE of _update_ampp_price
update_ampp_price(row, price, method, today) ==
    IF ~row.exists
    THEN [exists |-> TRUE,
          price |-> price, price_prev |-> Null, price_date |-> today,
          price_basis_code |-> BasisCalculated,
          calculation_method |-> method,
          price_status |-> PRICE_STATUS.CALCULATED,
          missing_reason |-> None,
          confidence_score |-> confidence_scores(method),
          calculation_date |-> today]
    ELSE [row EXCEPT !.price_prev = row.price,
                     !.price = price,
                     !.price_date = today,
                     !.calculation_method = method,
                     !.price_status = PRICE_STATUS.CALCULATED,
                     !.confidence_score = confidence_scores(method),
                     !.calculation_date = today]

\* -------------------------------------------------------- search projection
\* UPDATE unified_search SET nhs_price = (SELECT price ...),
\*                           calculation_method = (SELECT calculation_method ...)
update_unified_search_table(C, P) ==
    [a \in AmppIds(C) |-> [nhs_price |-> P[a].price,
                           calculation_method |-> P[a].calculation_method]]

\* unified_search rows of the packs as build_unified_search_table leaves them.
build_unified_search_table(C, P) ==
    [a \in AmppIds(C) |-> [nhs_price |-> P[a].price, calculation_method |-> None]]

\* ------------------------------------------------------------ initial stores
\* Stores as create_database and load_data leave them.  Each topology is a
\* small product hierarchy; base[a] is the price the source data carries for
\* pack a when it carries one.
Ampp(apid, vppid) == [apid |-> apid, vppid |-> vppid, disc_code |-> Null, disc_date |-> Null]
Amp(vpid) == [vpid |-> vpid, avail_restrict_code |-> AvailableCode]
Vmpp(vpid, qty, uom) == [vpid |-> vpid, qty_value |-> qty, qty_uom_code |-> uom]
Ingredient(name, strength, uom) == [name |-> name, strength |-> strength, uom_code |-> uom]

\* One product X with two pack sizes: P (100) and Q (50).
TwoSizes ==
    [ampp |-> <<Ampp(1, 1), Ampp(1, 2)>>,
     amp |-> <<Amp(1)>>,
     vmpp |-> <<Vmpp(1, 100, 1), Vmpp(1, 50, 1)>>,
     vmp_ingredient |-> << << >> >>,
     vmp_form |-> << << >> >>,
     base |-> <<480, 250>>]

\* One product with a pack of 20 between packs of 10 and 30.
ThreeSizes ==
    [ampp |-> <<Ampp(1, 1), Ampp(1, 2), Ampp(1, 3)>>,
     amp |-> <<Amp(1)>>,
     vmpp |-> <<Vmpp(1, 20, 1), Vmpp(1, 10, 1), Vmpp(1, 30, 1)>>,
     vmp_ingredient |-> << << >> >>,
     vmp_form |-> << << >> >>,
     base |-> <<210, 100, 330>>]

\* Product 1 has packs 1 and 2; pack 2 shares its virtual pack with pack 3
\* of another brand.
TwoBrands ==
    [ampp |-> <<Ampp(1, 1), Ampp(1, 2), Ampp(2, 2)>>,
     amp |-> <<Amp(1), Amp(1)>>,
     vmpp |-> <<Vmpp(1, 10, 1), Vmpp(1, 20, 1)>>,
     vmp_ingredient |-> << << >> >>,
     vmp_form |-> << << >> >>,
     base |-> <<60, 110, 120>>]

\* Four brands of one virtual pack.
FourBrands ==
    [ampp |-> <<Ampp(1, 1), Ampp(2, 1), Ampp(3, 1), Ampp(4, 1)>>,
     amp |-> <<Amp(1), Amp(1), Amp(1), Amp(1)>>,
     vmpp |-> <<Vmpp(1, 28, 1)>>,
     vmp_ingredient |-> << << >> >>,
     vmp_form |-> << << >> >>,
     base |-> <<125, 100, 120, 140>>]

\* Three virtual products with the same form; ingredient "a" at strengths 10
\* and 20, and ingredient "ab" at strength 10.
SimilarProducts ==
    [ampp |-> <<Ampp(1, 1), Ampp(2, 2), Ampp(3, 3)>>,
     amp |-> <<Amp(1), Amp(2), Amp(3)>>,
     vmpp |-> <<Vmpp(1, 10, 1), Vmpp(2, 10, 1), Vmpp(3, 20, 1)>>,
     vmp_ingredient |-> << <<Ingredient(<<"a">>, 10, 1)>>,
                           <<Ingredient(<<"a">>, 20, 1)>>,
                           <<Ingredient(<<"a", "b">>, 10, 1)>> >>,
     vmp_form |-> <<  <<1>>, <<1>>, <<1>> >>,
     base |-> <<50, 90, 105>>]

\* One product with two packs of the same virtual pack (the same quantity,
\* put up differently).
TwoSubpacks ==
    [ampp |-> <<Ampp(1, 1), Ampp(1, 1)>>,
     amp |-> <<Amp(1)>>,
     vmpp |-> <<Vmpp(1, 28, 1)>>,
     vmp_ingredient |-> << << >> >>,
     vmp_form |-> << << >> >>,
     base |-> <<200, 210>>]

\* One product with a pack of 10 and a pack of 30 that costs a penny.
PennyPack ==
    [ampp |-> <<Ampp(1, 1), Ampp(1, 2)>>,
     amp |-> <<Amp(1)>>,
     vmpp |-> <<Vmpp(1, 10, 1), Vmpp(1, 30, 1)>>,
     vmp_ingredient |-> << << >> >>,
     vmp_form |-> << << >> >>,
     base |-> <<2, 1>>]

Topologies == {TwoSizes, ThreeSizes, TwoBrands, FourBrands, SimilarProducts, TwoSubpacks,
               PennyPack}

\* What the source data says about pack 1: its reimbursement status, its
\* discontinuation code and date, its hospital-only flag and the availability
\* restriction of its product.  Every other pack is reimbursable, current,
\* not hospital-only.
PackOneFlags ==
    [reimb : {NoRow, 1, 5}, disc_code : {Null, 7}, disc_date : {Null, 1},
     hosp : {NoRow, 1}, avail_restrict_code : {AvailableCode, 2}]

CleanFlags == [reimb |-> 1, disc_code |-> Null, disc_date |-> Null, hosp |-> NoRow,
               avail_restrict_code |-> AvailableCode]

Catalogue(topo, flags) ==
    [ampp |-> [a \in DOMAIN topo.ampp |->
                 IF a = 1 THEN [topo.ampp[a] EXCEPT !.disc_code = flags.disc_code,
                                                   !.disc_date = flags.disc_date]
                 ELSE topo.ampp[a]],
     amp |-> [x \in DOMAIN topo.amp |->
                 IF x = topo.ampp[1].apid
                 THEN [topo.amp[x] EXCEPT !.avail_restrict_code = flags.avail_restrict_code]
                 ELSE topo.amp[x]],
     vmpp |-> topo.vmpp,
     pack_info |-> [a \in DOMAIN topo.ampp |-> IF a = 1 THEN flags.reimb ELSE 1],
     prescrib_info |-> [a \in DOMAIN topo.ampp |-> IF a = 1 THEN flags.hosp ELSE 0],
     vmp_ingredient |-> topo.vmp_ingredient,
     vmp_form |-> topo.vmp_form]

\* The ampp_price_info row of a pack, by what the source data carried: no
\* PRICE_INFO element, one without PRICE, a zero price, or the base price.
PriceKinds == {"absent", "null", "zero", "priced"}

InitialRow(kind, base) ==
    IF kind = "absent" THEN AbsentRow
    ELSE IF kind = "null" THEN LoaderRow(Null)
    ELSE IF kind = "zero" THEN LoaderRow(0)
    ELSE LoaderRow(base)

\* ------------------------------------------------------------------- state
VARIABLES
    cat,                    \* the product hierarchy (never written by the engine)
    db,                     \* the committed store: what a new connection reads
    tx,                     \* the store as seen through the run's connection
    pc,                     \* where calculate_missing_prices stands
    runs,                   \* invocations finished so far
    faults,                 \* failures injected so far
    needs_calculation,      \* classified_ampp['needs_calculation']
    intentionally_missing,  \* classified_ampp['intentionally_missing']
    todo,                   \* needs-calculation packs the loop has yet to visit
    calculation_counts,     \* prices written per method in this run
    failed_calculations,    \* packs counted as failed in this run
    result,                 \* what the last finished invocation gave its caller
    start,                  \* ampp_price_info when the current run connected
    reads,                  \* comparable prices the rules have read in this run
    store_error,            \* a sqlite3.Error was raised during this run
    unresolved,             \* packs for which every rule came back empty
    writes,                 \* packs whose price the writer has set in this run
    last,                   \* the latest loop iteration: pack, table read, outcome
    errors,                 \* exceptions caught inside loop iterations of this run
    history                 \* one record per finished invocation

\* The retrieval clients that run before the store is loaded.
VARIABLES
    dl_pc,                  \* where src/download's download_dmd_files stands
    retry_count,            \* download_dmd_files' argument (main's --retries)
    retry_delay,            \* download_dmd_files' argument (main's --retry-delay)
    fn,                     \* the function whose attempt loop is running
    max_retries,            \* that function's max_retries parameter
    wait_time,              \* that function's retry_delay parameter
    attempt,                \* the loop variable of "for attempt in range(max_retries)"
    requests_made,          \* requests.get calls of the running loop
    slept,                  \* the time.sleep calls of the running loop, in order
    calls,                  \* one record per finished request_json / download_file
    dmd_pc,                 \* where drug_tariff_master.download_dmd.main stands
    release_url,            \* main's release_url
    dmd_calls,              \* one record per finished call of download_dmd's functions
    exit_code               \* what download_dmd.main returned

\* The store of the earlier pipeline (src/database.py, src/parser.py,
\* src/pricing.py): tables ampp and vmpp carry PRICE themselves.
VARIABLES
    legacy_pc,              \* where pricing.calculate_all_prices stands
    legacy_db,              \* tables ampp and vmpp of config.DB_PATH
    legacy_start,           \* table ampp when calculate_all_prices was called
    ampp_records,           \* rows of the running rule's SELECT still to be visited
    legacy_log,             \* one record per UPDATE of ampp that changed a row
    stats                   \* calculate_all_prices' stats

engine_vars == <<cat, db, tx, pc, runs, faults, needs_calculation, intentionally_missing,
                 todo, calculation_counts, failed_calculations, result, start, reads,
                 store_error, unresolved, writes, last, errors, history>>

download_vars == <<dl_pc, retry_count, retry_delay, fn, max_retries, wait_time, attempt,
                   requests_made, slept, calls, dmd_pc, release_url, dmd_calls,
                   exit_code>>

legacy_vars == <<legacy_pc, legacy_db, legacy_start, ampp_records, legacy_log, stats>>

vars == <<engine_vars, download_vars, legacy_vars>>

Methods == {CALCULATION_METHODS.SAME_PRODUCT_DIFFERENT_SIZE,
            CALCULATION_METHODS.SAME_VMPP_DIFFERENT_BRAND,
            CALCULATION_METHODS.SIMILAR_VMP,
            CALCULATION_METHODS.DEFAULT}

Packs == AmppIds(cat)

\* datetime.now().strftime('%Y-%m-%d'): the day of the run.
now == runs + 1

NoIteration(P) == [appid |-> 0, before |-> P, price |-> Null, method |-> None,
                   fault |-> "none"]

\* No retrieval client has been started.
DownloadAtRest ==
    /\ dl_pc = "idle"
    /\ retry_count = 0
    /\ retry_delay = 0
    /\ fn = "none"
    /\ max_retries = 0
    /\ wait_time = 0
    /\ attempt = 0
    /\ requests_made = 0
    /\ slept = << >>
    /\ calls = << >>
    /\ dmd_pc = "idle"
    /\ release_url = None
    /\ dmd_calls = << >>
    /\ exit_code = Null

\* SQL NULL in a text column of the earlier store, where the string 'None'
\* is a value of its own.
NullText == "NULL"

NoStats == [initial_price |-> 0, same_vmpp |-> 0, same_vmp |-> 0, default |-> 0]

\* The earlier store has not been built.
LegacyAtRest ==
    /\ legacy_pc = "idle"
    /\ legacy_db = [ampp |-> << >>, vmpp |-> << >>]
    /\ legacy_start = << >>
    /\ ampp_records = {}
    /\ legacy_log = << >>
    /\ stats = NoStats

\* The initial stores: every price pattern with pack 1 clean, and every
\* flag pattern of pack 1 with the other packs priced.
Init ==
    /\ DownloadAtRest
    /\ LegacyAtRest
    /\ \E topo \in Topologies :
         \E flags \in PackOneFlags :
           \E kinds \in [DOMAIN topo.ampp -> PriceKinds] :
             /\ \A a \in DOMAIN topo.ampp : a /= 1 => kinds[a] /= "null"
             /\ \/ flags = CleanFlags
                \/ \A a \in DOMAIN topo.ampp : a /= 1 => kinds[a] = "priced"
             /\ cat = Catalogue(topo, flags)
             /\ LET price == [a \in DOMAIN topo.ampp |-> InitialRow(kinds[a], topo.base[a])]
                IN  db = [price |-> price,
                          search |-> build_unified_search_table(Catalogue(topo, flags), price),
                          columns |-> FALSE]
    /\ tx = db
    /\ pc = "idle"
    /\ runs = 0
    /\ faults = 0
    /\ needs_calculation = {}
    /\ intentionally_missing = {}
    /\ todo = {}
    /\ calculation_counts = [m \in Methods |-> 0]
    /\ failed_calculations = 0
    /\ result = "none"
    /\ start = db.price
    /\ reads = {}
    /\ store_error = FALSE
    /\ unresolved = {}
    /\ writes = {}
    /\ last = NoIteration(db.price)
    /\ errors = {}
    /\ history = << >>

\* ----------------------------------------------------------------- actions
RunVars == <<needs_calculation, intentionally_missing, todo, calculation_counts,
             failed_calculations, reads, unresolved, writes, last, errors>>

\* The invocation ends: finally: conn.close() drops whatever the connection
\* has not committed.
Finish(value, error) ==
    /\ result' = value
    /\ tx' = db'
    /\ pc' = "idle"
    /\ runs' = runs + 1
    /\ store_error' = error
    /\ history' = Append(history,
                         [result |-> value, price |-> db'.price, search |-> db'.search,
                          start |-> start, store_error |-> error,
                          needs_calculation |-> needs_calculation,
                          intentionally_missing |-> intentionally_missing,
                          unresolved |-> unresolved, writes |-> writes,
                          errors |-> errors, faults |-> faults',
                          calculation_counts |-> calculation_counts,
                          failed_calculations |-> failed_calculations])

\* except sqlite3.Error: conn.rollback(); return False
Abort ==
    /\ faults < MaxFaults
    /\ faults' = faults + 1
    /\ db' = db
    /\ Finish("False", TRUE)
    /\ UNCHANGED <<download_vars, legacy_vars, cat, start, RunVars>>

\* conn = sqlite3.connect(db_path)
connect ==
    /\ pc = "idle"
    /\ runs < MaxRuns
    /\ pc' = "schema"
    /\ tx' = db
    /\ start' = db.price
    /\ needs_calculation' = {}
    /\ intentionally_missing' = {}
    /\ todo' = {}
    /\ calculation_counts' = [m \in Methods |-> 0]
    /\ failed_calculations' = 0
    /\ reads' = {}
    /\ unresolved' = {}
    /\ writes' = {}
    /\ last' = NoIteration(db.price)
    /\ errors' = {}
    /\ store_error' = FALSE
    /\ UNCHANGED <<download_vars, legacy_vars, cat, db, runs, faults, result, history>>

\* sqlite3.connect raises: conn is unbound in the handlers, whose "if conn:"
\* raises in turn, and that exception leaves the function.
connect_fails ==
    /\ pc = "idle"
    /\ runs < MaxRuns
    /\ faults < MaxFaults
    /\ faults' = faults + 1
    /\ db' = db
    /\ start' = db.price
    /\ needs_calculation' = {}
    /\ intentionally_missing' = {}
    /\ todo' = {}
    /\ calculation_counts' = [m \in Methods |-> 0]
    /\ failed_calculations' = 0
    /\ reads' = {}
    /\ unresolved' = {}
    /\ writes' = {}
    /\ last' = NoIteration(db.price)
    /\ errors' = {}
    /\ result' = "raised"
    /\ tx' = db
    /\ pc' = "idle"
    /\ runs' = runs + 1
    /\ store_error' = TRUE
    /\ history' = Append(history,
                         [result |-> "raised", price |-> db.price, search |-> db.search,
                          start |-> db.price, store_error |-> TRUE,
                          needs_calculation |-> {}, intentionally_missing |-> {},
                          unresolved |-> {}, writes |-> {},
                          errors |-> {}, faults |-> faults + 1,
                          calculation_counts |-> [m \in Methods |-> 0],
                          failed_calculations |-> 0])
    /\ UNCHANGED <<download_vars, legacy_vars, cat>>

\* _update_schema: ALTER TABLE ... ADD COLUMN, CREATE INDEX, conn.commit()
update_schema ==
    /\ pc = "schema"
    /\ db' = [db EXCEPT !.columns = TRUE]
    /\ tx' = [tx EXCEPT !.columns = TRUE]
    /\ pc' = "classify"
    /\ UNCHANGED <<download_vars, legacy_vars, cat, runs, faults, result, start, store_error, history, RunVars>>

update_schema_fails ==
    /\ pc = "schema"
    /\ Abort

\* Variant of classify that hands every pack with a missing price to the
\* loop, whatever its reason.
classify_all_to_loop ==
    /\ pc = "classify"
    /\ LET missing == missing_price_ampp(cat, tx.price)
           unknown == {a \in missing :
                         check_missing_price_reason(cat, a) = MISSING_PRICE_REASONS.UNKNOWN}
       IN  /\ needs_calculation' = unknown
           /\ intentionally_missing' = missing \ unknown
           /\ todo' = missing
    /\ tx' = [tx EXCEPT !.price = classify_missing_prices(cat, tx.price, now)]
    /\ pc' = "loop"
    /\ UNCHANGED <<download_vars, legacy_vars, cat, db, runs, faults, result, start, store_error, history,
                   calculation_counts, failed_calculations, reads, unresolved, writes,
                   last, errors>>

\* _classify_missing_prices
classify ==
    /\ pc = "classify"
    /\ LET missing == missing_price_ampp(cat, tx.price)
           unknown == {a \in missing :
                         check_missing_price_reason(cat, a) = MISSING_PRICE_REASONS.UNKNOWN}
       IN  /\ needs_calculation' = unknown
           /\ intentionally_missing' = missing \ unknown
           /\ todo' = unknown
    /\ tx' = [tx EXCEPT !.price = classify_missing_prices(cat, tx.price, now)]
    /\ pc' = "loop"
    /\ UNCHANGED <<download_vars, legacy_vars, cat, db, runs, faults, result, start, store_error, history,
                   calculation_counts, failed_calculations, reads, unresolved, writes,
                   last, errors>>

classify_fails ==
    /\ pc = "classify"
    /\ Abort

\* The comparable prices the cascade read for pack a when it came back with
\* method (None: no rule matched): rule B runs only after A gave nothing,
\* rule C only after B gave nothing.
SimilarComparables(C, P, a) ==
    IF ~(HasAmp(C, a) /\ HasVmpp(C, a)) THEN {}
    ELSE LET ingredients == IngredientsOf(C, VpidOf(C, a))
             forms == FormsOf(C, VpidOf(C, a))
         IN  IF ingredients = << >> \/ forms = << >> THEN {}
             ELSE IF ingredients[1].strength = Null THEN {}
             ELSE {r.appid : r \in SimilarRows(C, P, a,
                                      [name |-> ingredients[1].name,
                                       strength |-> ingredients[1].strength,
                                       uom_code |-> ingredients[1].uom_code,
                                       form |-> forms[1]])}

ComparablesRead(C, P, a, method, fault) ==
    LET ranB == method /= CALCULATION_METHODS.SAME_PRODUCT_DIFFERENT_SIZE
        ranC == ranB /\ method /= CALCULATION_METHODS.SAME_VMPP_DIFFERENT_BRAND
        srcA == IF fault /= "A" /\ HasVmpp(C, a) THEN SameProductComparables(C, P, a) ELSE {}
        srcB == IF ranB /\ fault /= "B" /\ HasVmpp(C, a) THEN SameVmppComparables(C, P, a) ELSE {}
        srcC == IF ranC /\ fault /= "C" THEN SimilarComparables(C, P, a) ELSE {}
    IN  {[target |-> a, source |-> c, price |-> P[c].price] : c \in srcA \cup srcB \cup srcC}

\* Whether the cascade, having come back with method, had called the rule
\* named by fault: rule B is called only after A gave nothing, rule C only
\* after B gave nothing; the writer is called only with a price.
Reached(fault, price, method) ==
    IF fault = "B" THEN method /= CALCULATION_METHODS.SAME_PRODUCT_DIFFERENT_SIZE
    ELSE IF fault = "C" THEN method = None
    ELSE IF fault = "write" THEN Truthy(price)
    ELSE TRUE

\* One iteration of the loop over classified_ampp['needs_calculation'] (a set:
\* the order of the visits is not fixed).  fault is "none", the rule whose
\* query raises, or "write" when _update_ampp_price raises; every such
\* exception is caught inside the iteration.
calculate(a, fault) ==
    /\ pc = "loop"
    /\ a \in todo
    /\ todo' = todo \ {a}
    /\ IF fault = "none"
       THEN UNCHANGED <<faults, store_error>>
       ELSE /\ faults < MaxFaults
            /\ faults' = faults + 1
            /\ store_error' = TRUE
    /\ \E out \in calculate_price_for_ampp(cat, tx.price, a,
                                           IF fault = "write" THEN "none" ELSE fault) :
         /\ Reached(fault, out.price, out.method)
         /\ reads' = reads \cup ComparablesRead(cat, tx.price, a, out.method, fault)
         /\ last' = [appid |-> a, before |-> tx.price, price |-> out.price,
                     method |-> out.method, fault |-> fault]
         /\ errors' = IF fault = "none" THEN errors
                      ELSE errors \cup {[appid |-> a, fault |-> fault]}
         /\ IF Truthy(out.price) /\ out.method /= None /\ fault /= "write"
            THEN /\ tx' = [tx EXCEPT !.price[a] =
                              update_ampp_price(tx.price[a], out.price, out.method, now)]
                 /\ calculation_counts' =
                        [calculation_counts EXCEPT ![out.method] = @ + 1]
                 /\ writes' = writes \cup {a}
                 /\ UNCHANGED <<failed_calculations, unresolved>>
            ELSE /\ failed_calculations' = failed_calculations + 1
                 /\ unresolved' = IF fault = "none" THEN unresolved \cup {a} ELSE unresolved
                 /\ UNCHANGED <<tx, calculation_counts, writes>>
    /\ UNCHANGED <<download_vars, legacy_vars, cat, db, pc, runs, result, start, history,
                   needs_calculation, intentionally_missing>>

calculate_one == \E a \in todo : calculate(a, "none")

calculate_one_rule_raises == \E a \in todo : \E fault \in {"A", "B", "C"} : calculate(a, fault)

calculate_one_write_raises == \E a \in todo : calculate(a, "write")

\* Variant of commit in which the loop is followed by the projection without
\* conn.commit().
commit_left_out ==
    /\ pc = "loop"
    /\ todo = {}
    /\ db' = db
    /\ pc' = "project"
    /\ UNCHANGED <<download_vars, legacy_vars, cat, tx, runs, faults, result, start, store_error, history, RunVars>>

\* conn.commit() after the loop
commit ==
    /\ pc = "loop"
    /\ todo = {}
    /\ db' = tx
    /\ pc' = "project"
    /\ UNCHANGED <<download_vars, legacy_vars, cat, tx, runs, faults, result, start, store_error, history, RunVars>>

commit_fails ==
    /\ pc = "loop"
    /\ todo = {}
    /\ Abort

\* _update_unified_search_table(conn): an UPDATE on the connection, after the
\* commit
project ==
    /\ pc = "project"
    /\ tx' = [tx EXCEPT !.search = update_unified_search_table(cat, tx.price)]
    /\ pc' = "return"
    /\ UNCHANGED <<download_vars, legacy_vars, cat, db, runs, faults, result, start, store_error, history, RunVars>>

project_fails ==
    /\ pc = "project"
    /\ Abort

\* return True
return_true ==
    /\ pc = "return"
    /\ db' = db
    /\ UNCHANGED <<download_vars, legacy_vars, cat, faults, start, RunVars>>
    /\ Finish("True", store_error)

Next ==
    \/ connect
    \/ connect_fails
    \/ update_schema
    \/ update_schema_fails
    \/ classify
    \/ classify_fails
    \/ calculate_one
    \/ calculate_one_rule_raises
    \/ calculate_one_write_raises
    \/ commit
    \/ commit_fails
    \/ project
    \/ project_fails
    \/ return_true

Spec == Init /\ [][Next]_vars

\* What the caller receives, as the record of the fields the value carries:
\* "return True" and "return False" hand back a bare bool; the counters are
\* locals that only reach the log.
Returned(value) ==
    IF value = "True" THEN [success |-> TRUE]
    ELSE IF value = "False" THEN [success |-> FALSE]
    ELSE [exception |-> TRUE]

\* ============================================ retrieval: src/download
\* def request_json(url, api_key=None, max_retries=3, retry_delay=300)
\* def download_file(url, output_path, api_key=None, max_retries=3, retry_delay=300)
DefaultMaxRetries == 3
DefaultRetryDelay == 300

\* The --retry-delay values the caller passes, in seconds.
RetryDelays == {0, 60, DefaultRetryDelay}

\* download_dmd_files calls request_json(release_url) and
\* download_file(archive_url, zip_path): neither call names max_retries or
\* retry_delay, so the callee runs on its defaults.
Call(f) ==
    /\ fn' = f
    /\ max_retries' = DefaultMaxRetries
    /\ wait_time' = DefaultRetryDelay
    /\ attempt' = 0
    /\ requests_made' = 0
    /\ slept' = << >>

\* The running loop ends with outcome.
CallRecord(outcome) ==
    [fn |-> fn, requests |-> requests_made + 1, slept |-> slept, outcome |-> outcome]

\* main: download_dmd_files(api_key, output_dir, retry_count=args.retries,
\*                          retry_delay=args.retry_delay)
download_dmd_files ==
    /\ dl_pc = "idle"
    /\ dmd_pc = "idle"
    /\ \E n \in 1..MaxRetries : retry_count' = n
    /\ \E d \in RetryDelays : retry_delay' = d
    /\ dl_pc' = "request_json"
    /\ Call("request_json")
    /\ UNCHANGED <<engine_vars, legacy_vars, calls, dmd_pc, release_url, dmd_calls, exit_code>>

\* An attempt of the running loop gets its response: the function returns.
AttemptSucceeds(f, then) ==
    /\ dl_pc = f
    /\ attempt < max_retries
    /\ calls' = Append(calls, CallRecord("returned"))
    /\ dl_pc' = then
    /\ UNCHANGED <<engine_vars, legacy_vars, retry_count, retry_delay, dmd_pc, release_url,
                   dmd_calls, exit_code>>

\* except requests.exceptions.RequestException: sleep and go round again, or
\* raise DownloadError on the last attempt.
AttemptFails(f) ==
    /\ dl_pc = f
    /\ attempt < max_retries
    /\ IF attempt < max_retries - 1
       THEN /\ slept' = Append(slept, wait_time)
            /\ attempt' = attempt + 1
            /\ requests_made' = requests_made + 1
            /\ UNCHANGED <<dl_pc, calls>>
       ELSE /\ calls' = Append(calls, CallRecord("DownloadError"))
            /\ dl_pc' = "raised"
            /\ UNCHANGED <<slept, attempt, requests_made>>
    /\ UNCHANGED <<engine_vars, legacy_vars, retry_count, retry_delay, fn, max_retries, wait_time,
                   dmd_pc, release_url, dmd_calls, exit_code>>

\* request_json returns release data naming an archive: download_file is
\* called next.
request_json_returns ==
    /\ AttemptSucceeds("request_json", "download_file")
    /\ Call("download_file")

\* request_json returns data without releases: DownloadError("No releases
\* found in the API response").
request_json_no_releases ==
    /\ AttemptSucceeds("request_json", "raised")
    /\ UNCHANGED <<fn, max_retries, wait_time, attempt, requests_made, slept>>

request_json_fails == AttemptFails("request_json")

download_file_returns ==
    /\ AttemptSucceeds("download_file", "extract_zip")
    /\ UNCHANGED <<fn, max_retries, wait_time, attempt, requests_made, slept>>

download_file_fails == AttemptFails("download_file")

\* extract_zip and the search for the XML files: the result is returned, or
\* DownloadError is raised for a bad archive.
extract_zip ==
    /\ dl_pc = "extract_zip"
    /\ \E outcome \in {"returned", "raised"} : dl_pc' = outcome
    /\ UNCHANGED <<engine_vars, legacy_vars, retry_count, retry_delay, fn, max_retries, wait_time,
                   attempt, requests_made, slept, calls, dmd_pc, release_url,
                   dmd_calls, exit_code>>

\* ============================ retrieval: drug_tariff_master.download_dmd
\* What session.get and response.json() give a caller.  kind is the
\* exception raised ("ConnectionError", "Timeout", "HTTPError" from
\* raise_for_status, "RequestException" for any other one of requests),
\* "invalid_json" for a body response.json() cannot parse, "json_null" for
\* the body null, "IOError" for a failure writing the file, "no_request"
\* when no request is made, or "response"; body describes the parsed JSON
\* object: whether it has the key "releases", the list under it, and for each
\* release whether it has the key "archiveFileUrl" and the value under it.
Release(has_url, url) == [has_url |-> has_url, archiveFileUrl |-> url]

Body(has_releases, releases) == [has_releases |-> has_releases, releases |-> releases]

NoBody == Body(FALSE, << >>)

RequestFailures == {"ConnectionError", "Timeout", "HTTPError", "RequestException"}

Reply(kind, body) == [kind |-> kind, body |-> body]

Bodies ==
    {NoBody,
     Body(TRUE, << >>),
     Body(TRUE, <<Release(FALSE, None)>>),
     Body(TRUE, <<Release(TRUE, "u1")>>),
     Body(TRUE, <<Release(TRUE, "u1"), Release(TRUE, "u2")>>),
     Body(TRUE, <<Release(FALSE, None), Release(TRUE, "u2")>>)}

ApiReplies ==
    {Reply(k, NoBody) : k \in RequestFailures \cup {"invalid_json", "json_null"}}
        \cup {Reply("response", b) : b \in Bodies}

FileReplies ==
    {Reply(k, NoBody) : k \in RequestFailures \cup {"IOError", "response"}}

Value(v) == [raised |-> FALSE, value |-> v]

Raises(e) == [raised |-> TRUE, value |-> e]

\* Variant of get_latest_release_url that takes the last release of the list.
get_latest_release_url_last_release(key_set, reply) ==
    IF ~key_set THEN Value(None)
    ELSE IF reply.kind \in RequestFailures THEN Value(None)
    ELSE IF reply.kind = "invalid_json" THEN Value(None)
    ELSE IF reply.kind = "json_null" THEN Raises("TypeError")
    ELSE IF reply.body.has_releases /\ reply.body.releases /= << >>
    THEN LET latest_release == reply.body.releases[Len(reply.body.releases)]
         IN  IF latest_release.has_url THEN Value(latest_release.archiveFileUrl)
             ELSE Value(None)
    ELSE Value(None)

get_latest_release_url(key_set, reply) ==
    IF ~key_set THEN Value(None)
    ELSE IF reply.kind \in RequestFailures THEN Value(None)
    ELSE IF reply.kind = "invalid_json" THEN Value(None)        \* except ValueError
    ELSE IF reply.kind = "json_null" THEN Raises("TypeError")   \* "releases" in None
    ELSE IF reply.body.has_releases /\ reply.body.releases /= << >>
    THEN LET latest_release == reply.body.releases[1]
         IN  IF latest_release.has_url THEN Value(latest_release.archiveFileUrl)
             ELSE Value(None)
    ELSE Value(None)

\* download_dmd.download_file(url, output_path) -> bool
dmd_download_file(reply) ==
    IF reply.kind \in RequestFailures THEN Value("False")
    ELSE IF reply.kind = "IOError" THEN Value("False")
    ELSE Value("True")

DmdCall(f, key_set, reply, outcome) ==
    [fn |-> f, key_set |-> key_set, reply |-> reply, raised |-> outcome.raised,
     value |-> outcome.value]

DmdFrame == <<engine_vars, legacy_vars, dl_pc, retry_count, retry_delay, fn, max_retries, wait_time,
              attempt, requests_made, slept, calls>>

\* download_dmd.main starts.
dmd_main ==
    /\ dl_pc = "idle"
    /\ dmd_pc = "idle"
    /\ dmd_pc' = "get_latest_release_url"
    /\ UNCHANGED <<DmdFrame, release_url, dmd_calls, exit_code>>

\* release_url = get_latest_release_url(); if not release_url: return 1
\* (an exception is caught by main's "except Exception": return 1)
dmd_main_get_latest_release_url ==
    /\ dmd_pc = "get_latest_release_url"
    /\ \E key_set \in BOOLEAN :
         \E reply \in IF key_set THEN ApiReplies ELSE {Reply("no_request", NoBody)} :
           LET outcome == get_latest_release_url(key_set, reply)
           IN  /\ dmd_calls' = Append(dmd_calls,
                                      DmdCall("get_latest_release_url", key_set, reply,
                                              outcome))
               /\ IF outcome.raised \/ outcome.value = None
                  THEN /\ dmd_pc' = "exited"
                       /\ exit_code' = 1
                       /\ UNCHANGED release_url
                  ELSE /\ dmd_pc' = "download_file"
                       /\ release_url' = outcome.value
                       /\ UNCHANGED exit_code
    /\ UNCHANGED DmdFrame

\* if not download_file(release_url, zip_path): return 1
dmd_main_download_file ==
    /\ dmd_pc = "download_file"
    /\ \E reply \in FileReplies :
         LET outcome == dmd_download_file(reply)
         IN  /\ dmd_calls' = Append(dmd_calls,
                                    DmdCall("download_file", TRUE, reply, outcome))
             /\ IF outcome.value = "True"
                THEN dmd_pc' = "extract_zip" /\ UNCHANGED exit_code
                ELSE dmd_pc' = "exited" /\ exit_code' = 1
    /\ UNCHANGED <<DmdFrame, release_url>>

\* extract_zip, find_and_extract_gtin_zip, verify_required_files: return 0
\* when the archive unpacks and every required file is there, 1 otherwise.
dmd_main_extract_and_verify ==
    /\ dmd_pc = "extract_zip"
    /\ dmd_pc' = "exited"
    /\ \E code \in {0, 1} : exit_code' = code
    /\ UNCHANGED <<DmdFrame, release_url, dmd_calls>>

\* ------------------------------------------------- the retrieval behaviours
\* The store is loaded only after retrieval: it stays as it is.
DownloadInit ==
    /\ Init
    /\ cat = Catalogue(TwoSizes, CleanFlags)
    /\ \A a \in Packs : Priced(db.price, a)

DownloadNext ==
    \/ download_dmd_files
    \/ request_json_returns
    \/ request_json_no_releases
    \/ request_json_fails
    \/ download_file_returns
    \/ download_file_fails
    \/ extract_zip
    \/ dmd_main
    \/ dmd_main_get_latest_release_url
    \/ dmd_main_download_file
    \/ dmd_main_extract_and_verify

DownloadSpec == DownloadInit /\ [][DownloadNext]_vars

\* ================================================ the earlier pipeline: src/pricing.py
\* Rows as parse_ampp and parse_vmpp insert them: an AMPP gets PRICE from its
\* PRICE_INFO element when there is one, PRICE_SOURCE 'initial' and
\* PRICE_METHOD NULL; a VMPP gets PRICE from its DTINFO element when there is
\* one.
LegacyAmppRow(vppid, price) ==
    [VPPID |-> vppid, PRICE |-> price, PRICE_SOURCE |-> "initial", PRICE_METHOD |-> NullText]

LegacyVmppRow(vpid, qtyval, qty_uomcd, price) ==
    [VPID |-> vpid, QTYVAL |-> qtyval, QTY_UOMCD |-> qty_uomcd, PRICE |-> price]

\* Virtual product 1 has the virtual packs 1 (10 units), 2 (20 units) and 4
\* (5 units), virtual product 2 the virtual pack 3 (5 units).  Packs 1 and 2
\* are of virtual pack 1, pack 3 of virtual pack 2, pack 4 of virtual pack 3,
\* pack 5 of virtual pack 4.  The source data may carry a price for each of
\* them, or none; it carries none for virtual pack 4.
LegacyVmppPrices == <<{Null, 101}, {Null, 230}, {Null, 55}, {Null}>>

LegacyAmppPrices == <<{Null, 0, 100}, {Null, 115}, {Null, 240}, {Null, 60}, {Null, 30}>>

LegacyStores ==
    {[ampp |-> <<LegacyAmppRow(1, p[1]), LegacyAmppRow(1, p[2]), LegacyAmppRow(2, p[3]),
                 LegacyAmppRow(3, p[4]), LegacyAmppRow(4, p[5])>>,
      vmpp |-> <<LegacyVmppRow(1, 10, 1, q[1]), LegacyVmppRow(1, 20, 1, q[2]),
                 LegacyVmppRow(2, 5, 1, q[3]), LegacyVmppRow(1, 5, 1, q[4])>>] :
        p \in {x \in [1..5 -> {Null, 0, 30, 60, 100, 115, 240}] :
                  \A i \in 1..5 : x[i] \in LegacyAmppPrices[i]},
        q \in {y \in [1..4 -> {Null, 55, 101, 230}] :
                  \A i \in 1..4 : y[i] \in LegacyVmppPrices[i]}}

\* SELECT ... FROM ampp WHERE PRICE IS NULL
NullPriced(S) == {a \in DOMAIN S.ampp : S.ampp[a].PRICE = Null}

\* EXISTS (SELECT 1 FROM vmpp WHERE vmpp.VPPID = ampp.VPPID AND vmpp.PRICE IS NOT NULL)
HasVmppPrice(S, a) ==
    /\ S.ampp[a].VPPID \in DOMAIN S.vmpp
    /\ S.vmpp[S.ampp[a].VPPID].PRICE /= Null

\* The UPDATE of update_initial_prices.
update_initial_prices(S) ==
    [S EXCEPT !.ampp =
        [a \in DOMAIN S.ampp |->
            IF S.ampp[a].PRICE = Null /\ HasVmppPrice(S, a)
            THEN [S.ampp[a] EXCEPT !.PRICE = S.vmpp[S.ampp[a].VPPID].PRICE,
                                   !.PRICE_SOURCE = "initial",
                                   !.PRICE_METHOD = NullText]
            ELSE S.ampp[a]]]

RECURSIVE SumLegacyPrices(_, _)
SumLegacyPrices(S, rows) ==
    IF rows = {} THEN 0
    ELSE LET a == CHOOSE x \in rows : TRUE
         IN  S.ampp[a].PRICE + SumLegacyPrices(S, rows \ {a})

\* One iteration of calculate_same_vmpp_prices: AVG(PRICE) over the other
\* packs of the virtual pack that have a price, rounded, written to the pack.
same_vmpp_price(S, appid) ==
    LET others == {b \in DOMAIN S.ampp :
                      /\ S.ampp[b].VPPID = S.ampp[appid].VPPID
                      /\ S.ampp[b].PRICE /= Null
                      /\ b /= appid}
    IN  IF others = {} THEN S
        ELSE [S EXCEPT !.ampp[appid] =
                 [@ EXCEPT !.PRICE = round(SumLegacyPrices(S, others), Cardinality(others)),
                           !.PRICE_SOURCE = "calculated",
                           !.PRICE_METHOD = "Same VMPP"]]

RECURSIVE SumPricePerUnit(_, _)
SumPricePerUnit(S, rows) ==
    IF rows = {} THEN <<0, 1>>
    ELSE LET v == CHOOSE x \in rows : TRUE
         IN  FracAdd(Frac(S.vmpp[v].PRICE, S.vmpp[v].QTYVAL),
                     SumPricePerUnit(S, rows \ {v}))

\* One iteration of calculate_same_vmp_prices: the mean price per unit of the
\* other priced virtual packs of the virtual product, in the same unit, times
\* the pack's quantity, rounded, written to the pack.
same_vmp_price(S, appid) ==
    LET vppid == S.ampp[appid].VPPID
    IN  IF vppid \notin DOMAIN S.vmpp THEN S
        ELSE LET price_info == {v \in DOMAIN S.vmpp :
                                   /\ S.vmpp[v].VPID = S.vmpp[vppid].VPID
                                   /\ S.vmpp[v].QTY_UOMCD = S.vmpp[vppid].QTY_UOMCD
                                   /\ S.vmpp[v].PRICE /= Null
                                   /\ v /= vppid}
                 total == SumPricePerUnit(S, price_info)
             IN  IF price_info = {} THEN S
                 ELSE [S EXCEPT !.ampp[appid] =
                          [@ EXCEPT !.PRICE = round(total[1] * S.vmpp[vppid].QTYVAL,
                                                    total[2] * Cardinality(price_info)),
                                    !.PRICE_SOURCE = "calculated",
                                    !.PRICE_METHOD = "Same VMP"]]

\* Variant of apply_default_prices whose UPDATE has no WHERE clause.
apply_default_prices_every_row(S) ==
    [S EXCEPT !.ampp =
        [a \in DOMAIN S.ampp |->
            [S.ampp[a] EXCEPT !.PRICE = 0,
                              !.PRICE_SOURCE = "calculated",
                              !.PRICE_METHOD = "None"]]]

\* The UPDATE of apply_default_prices.
apply_default_prices(S) ==
    [S EXCEPT !.ampp =
        [a \in DOMAIN S.ampp |->
            IF S.ampp[a].PRICE = Null
            THEN [S.ampp[a] EXCEPT !.PRICE = 0,
                                   !.PRICE_SOURCE = "calculated",
                                   !.PRICE_METHOD = "None"]
            ELSE S.ampp[a]]]

\* The record of an UPDATE of ampp by rule that took table ampp from before
\* to after; nothing is recorded when no row changed.
Logged(rule, before, after) ==
    LET rows == {a \in DOMAIN before : after[a] /= before[a]}
    IN  IF rows = {} THEN legacy_log
        ELSE Append(legacy_log, [rule |-> rule, rows |-> rows, before |-> before])

LegacyFrame == <<engine_vars, download_vars>>

\* parse_vmpp and parse_ampp fill the tables of a new store.
legacy_load ==
    /\ legacy_pc = "idle"
    /\ dl_pc = "idle"
    /\ dmd_pc = "idle"
    /\ \E S \in LegacyStores : legacy_db' = S
    /\ legacy_pc' = "loaded"
    /\ UNCHANGED <<LegacyFrame, legacy_start, ampp_records, legacy_log, stats>>

\* calculate_all_prices: stats['initial_price'] = update_initial_prices()
calculate_all_prices_initial ==
    /\ legacy_pc = "loaded"
    /\ legacy_start' = legacy_db.ampp
    /\ legacy_db' = update_initial_prices(legacy_db)
    /\ legacy_log' = Logged("initial", legacy_db.ampp, legacy_db'.ampp)
    /\ stats' = [NoStats EXCEPT !.initial_price =
                    Cardinality({a \in NullPriced(legacy_db) : HasVmppPrice(legacy_db, a)})]
    /\ legacy_pc' = "calculate_same_vmpp_prices"
    /\ UNCHANGED <<LegacyFrame, ampp_records>>

\* A rule's SELECT of the packs with a null PRICE, before its loop.
SelectNullPriced(at, loop) ==
    /\ legacy_pc = at
    /\ ampp_records' = NullPriced(legacy_db)
    /\ legacy_pc' = loop
    /\ UNCHANGED <<LegacyFrame, legacy_db, legacy_start, legacy_log, stats>>

\* One iteration of a rule's loop over ampp_records; the rows come in no
\* stated order.  updates += 1 when the rule had something to write.
VisitRecord(loop, rule) ==
    /\ legacy_pc = loop
    /\ \E appid \in ampp_records :
         /\ ampp_records' = ampp_records \ {appid}
         /\ legacy_db' = IF rule = "same_vmpp" THEN same_vmpp_price(legacy_db, appid)
                          ELSE same_vmp_price(legacy_db, appid)
         /\ legacy_log' = Logged(rule, legacy_db.ampp, legacy_db'.ampp)
         /\ stats' = IF legacy_db' = legacy_db THEN stats
                      ELSE [stats EXCEPT ![rule] = @ + 1]
    /\ UNCHANGED <<LegacyFrame, legacy_pc, legacy_start>>

calculate_same_vmpp_prices_select ==
    SelectNullPriced("calculate_same_vmpp_prices", "same_vmpp_loop")

calculate_same_vmpp_prices_record ==
    VisitRecord("same_vmpp_loop", "same_vmpp")

\* calculate_same_vmpp_prices returns and calculate_same_vmp_prices selects.
calculate_same_vmp_prices_select ==
    /\ ampp_records = {}
    /\ SelectNullPriced("same_vmpp_loop", "same_vmp_loop")

calculate_same_vmp_prices_record ==
    VisitRecord("same_vmp_loop", "same_vmp")

\* calculate_same_vmp_prices returns; stats['default'] = apply_default_prices();
\* return stats
calculate_all_prices_default ==
    /\ legacy_pc = "same_vmp_loop"
    /\ ampp_records = {}
    /\ legacy_db' = apply_default_prices(legacy_db)
    /\ legacy_log' = Logged("default", legacy_db.ampp, legacy_db'.ampp)
    /\ stats' = [stats EXCEPT !.default = Cardinality(NullPriced(legacy_db))]
    /\ legacy_pc' = "returned"
    /\ UNCHANGED <<LegacyFrame, legacy_start, ampp_records>>

\* The engine's store and the retrieval clients stay as they are.
LegacyInit ==
    /\ Init
    /\ cat = Catalogue(TwoSizes, CleanFlags)
    /\ \A a \in Packs : Priced(db.price, a)

LegacyNext ==
    \/ legacy_load
    \/ calculate_all_prices_initial
    \/ calculate_same_vmpp_prices_select
    \/ calculate_same_vmpp_prices_record
    \/ calculate_same_vmp_prices_select
    \/ calculate_same_vmp_prices_record
    \/ calculate_all_prices_default

LegacySpec == LegacyInit /\ [][LegacyNext]_vars

\* ------------------------------------------------------ repeated invocations
\* calculate_missing_prices called again and again on the same store, every
\* statement succeeding: conn = sqlite3.connect(db_path) of the next call.
connect_again ==
    /\ pc = "idle"
    /\ runs < MaxRepeats
    /\ pc' = "schema"
    /\ tx' = db
    /\ start' = db.price
    /\ needs_calculation' = {}
    /\ intentionally_missing' = {}
    /\ todo' = {}
    /\ calculation_counts' = [m \in Methods |-> 0]
    /\ failed_calculations' = 0
    /\ reads' = {}
    /\ unresolved' = {}
    /\ writes' = {}
    /\ last' = NoIteration(db.price)
    /\ errors' = {}
    /\ store_error' = FALSE
    /\ UNCHANGED <<download_vars, legacy_vars, cat, db, runs, faults, result, history>>

RepeatNext ==
    \/ connect_again
    \/ update_schema
    \/ classify
    \/ calculate_one
    \/ commit
    \/ project
    \/ return_true

RepeatSpec == Init /\ [][RepeatNext]_vars

\* ================================================================== claims
FinishedRuns == {history[i] : i \in 1..Len(history)}

\* A run that returned True and met no injected failure.
CleanRun(h) == h.result = "True" /\ ~h.store_error

RuleMethods == {CALCULATION_METHODS.SAME_PRODUCT_DIFFERENT_SIZE,
                CALCULATION_METHODS.SAME_VMPP_DIFFERENT_BRAND,
                CALCULATION_METHODS.SIMILAR_VMP}

Tables == {db.price, tx.price}

\* The scenario of C1 at the start of run h: product X has exactly the packs
\* P (100, needing calculation) and Q (50, priced 250), in the same unit.
RuleAScenario(h, P, Q) ==
    /\ P /= Q
    /\ {a \in Packs : cat.ampp[a].apid = cat.ampp[P].apid} = {P, Q}
    /\ pack_size(cat, P) = 100
    /\ pack_size(cat, Q) = 50
    /\ qty_uom_code(cat, P) = qty_uom_code(cat, Q)
    /\ h.start[Q].exists
    /\ h.start[Q].price = 250
    /\ P \in h.needs_calculation

\* C1: with X having an unpriced, unexplained pack P of 100 and a priced pack
\* Q of 50 at 250 in the same unit, after the run P's PriceRecord holds price
\* 500, method same_product_different_size and confidence 0.45.
C1_RuleAEndToEnd ==
    \A h \in FinishedRuns :
        CleanRun(h) =>
            \A P \in Packs : \A Q \in Packs :
                RuleAScenario(h, P, Q) =>
                    /\ h.price[P].price = 500
                    /\ h.price[P].calculation_method =
                           CALCULATION_METHODS.SAME_PRODUCT_DIFFERENT_SIZE
                    /\ h.price[P].confidence_score = 450

\* C2: after a run that returned success, a reader opening the store finds,
\* for every pack, the search entry carrying the PriceRecord's price and
\* calculation_method when the price is non-null, and no price otherwise.
C2_SearchEntriesFollowPrices ==
    \A h \in FinishedRuns :
        h.result = "True" =>
            \A a \in Packs :
                IF h.price[a].price /= Null
                THEN /\ h.search[a].nhs_price = h.price[a].price
                     /\ h.search[a].calculation_method = h.price[a].calculation_method
                ELSE h.search[a].nhs_price = Null

\* C3: every comparable price a rule reads during a run is the price that
\* pack had in the store when the run started.
C3_SnapshotReads ==
    \A e \in reads : start[e.source].exists /\ start[e.source].price = e.price

\* C4: a second run with no store change in between leaves price,
\* calculation_method and confidence_score of every pack as the first run
\* left them.
C4_Idempotent ==
    (Len(history) >= 2 /\ CleanRun(history[1]) /\ CleanRun(history[2])) =>
        \A a \in Packs :
            /\ history[2].price[a].price = history[1].price[a].price
            /\ history[2].price[a].calculation_method =
                   history[1].price[a].calculation_method
            /\ history[2].price[a].confidence_score =
                   history[1].price[a].confidence_score

\* C5: a pack classified unknown for which no rule yields a price has, after
\* the run, a PriceRecord with price NULL and price_status unknown.
C5_NoSilentZeroing ==
    \A h \in FinishedRuns :
        CleanRun(h) =>
            \A a \in h.unresolved :
                /\ h.price[a].exists
                /\ h.price[a].price = Null
                /\ h.price[a].price_status = PRICE_STATUS.UNKNOWN

LowestId(S) == CHOOSE a \in S : \A b \in S : a <= b

\* C6: when several priced siblings are equally close in quantity, rule A
\* uses the one with the lowest pack id.
C6_TieBreakLowestId ==
    (/\ last.appid /= 0
     /\ last.fault = "none"
     /\ last.method = CALCULATION_METHODS.SAME_PRODUCT_DIFFERENT_SIZE) =>
        last.price =
            SameProductEstimate(cat, last.before, last.appid,
                LowestId(SameProductFirstRows(cat, last.before, last.appid))).price

\* C7: every PriceRecord with price_status = calculated has a non-null price,
\* one of the three rule names as calculation_method and a confidence_score
\* in (0, 1].
C7_CalculatedIsComplete ==
    \A P \in Tables : \A a \in Packs :
        P[a].price_status = PRICE_STATUS.CALCULATED =>
            /\ P[a].exists
            /\ P[a].price /= Null
            /\ P[a].calculation_method \in RuleMethods
            /\ P[a].confidence_score > 0
            /\ P[a].confidence_score <= 1000

\* A committed PriceRecord is calculated.
C7_Witness ==
    \E a \in Packs : db.price[a].price_status = PRICE_STATUS.CALCULATED

\* C8: every PriceRecord with price_status = intentionally_missing has price
\* NULL and a missing_reason among the four reasons, also when the record
\* held price 0 before.
C8_IntentionallyMissingHasNoPrice ==
    \A P \in Tables : \A a \in Packs :
        P[a].price_status = PRICE_STATUS.INTENTIONALLY_MISSING =>
            /\ P[a].price = Null
            /\ P[a].missing_reason \in {MISSING_PRICE_REASONS.NON_REIMBURSABLE,
                                        MISSING_PRICE_REASONS.DISCONTINUED,
                                        MISSING_PRICE_REASONS.HOSPITAL_ONLY,
                                        MISSING_PRICE_REASONS.NOT_AVAILABLE}

\* The four conditions of the classifier, as facts about the source data.
ReasonHolds(a, i) ==
    IF i = 1 THEN cat.pack_info[a] \notin {NoRow} \cup ReimbursableCodes
    ELSE IF i = 2 THEN cat.ampp[a].disc_code /= Null
    ELSE IF i = 3 THEN cat.prescrib_info[a] = 1
    ELSE cat.amp[cat.ampp[a].apid].avail_restrict_code \notin {Null, AvailableCode}

ReasonInOrder ==
    <<MISSING_PRICE_REASONS.NON_REIMBURSABLE, MISSING_PRICE_REASONS.DISCONTINUED,
      MISSING_PRICE_REASONS.HOSPITAL_ONLY, MISSING_PRICE_REASONS.NOT_AVAILABLE>>

\* C9: once a run has classified, every pack of its input set carries the
\* reason of the lowest-numbered condition that holds for it, and is sent
\* to calculation (reason unknown) only when none holds.
C9_FirstMatchWins ==
    pc \in {"loop", "project", "return"} =>
        \A a \in missing_price_ampp(cat, start) :
            LET holding == {i \in 1..4 : ReasonHolds(a, i)}
            IN  IF holding = {}
                THEN a \in needs_calculation /\ a \notin intentionally_missing
                ELSE /\ a \in intentionally_missing
                     /\ a \notin needs_calculation
                     /\ tx.price[a].missing_reason = ReasonInOrder[LowestId(holding)]

\* A pack both discontinued and hospital-only has been classified.
C9_Witness ==
    /\ pc = "loop"
    /\ \E a \in intentionally_missing :
         /\ ReasonHolds(a, 2) /\ ReasonHolds(a, 3) /\ ~ReasonHolds(a, 1)
         /\ tx.price[a].missing_reason = MISSING_PRICE_REASONS.DISCONTINUED

\* C10: a run that met a store-level error does not report success, and a
\* run that does not report success leaves no PriceRecord write in the store.
C10_RunIsAtomic ==
    \A h \in FinishedRuns :
        /\ h.store_error => h.result /= "True"
        /\ h.result /= "True" => h.price = h.start

\* C11: no invocation ends with an exception reaching the caller; every
\* failure, a failure to open the connection included, is answered with
\* False.
C11_NoExceptionEscapes ==
    \A h \in FinishedRuns : h.result \in {"True", "False"}

\* Failures of invocation i that were not caught inside a loop iteration.
StoreFailures(i) ==
    history[i].faults - (IF i = 1 THEN 0 ELSE history[i - 1].faults)
        - Cardinality(history[i].errors)

\* C12: a pack whose processing raised a calculation error ends the run
\* without a written price and with its PriceRecord as it was, every
\* needs-calculation pack has still been visited, and the run returns
\* success unless a store-level failure occurred as well.
C12_PackErrorsStayLocal ==
    \A i \in 1..Len(history) :
        history[i].errors /= {} =>
            /\ \A e \in history[i].errors :
                  /\ e.appid \notin history[i].writes
                  /\ history[i].price[e.appid] = history[i].start[e.appid]
            /\ history[i].needs_calculation =
                   history[i].writes \cup history[i].unresolved
                       \cup {e.appid : e \in history[i].errors}
            /\ StoreFailures(i) = 0 => history[i].result = "True"

\* C13: the value a run returns carries counts_by_method and failed_count;
\* counts_by_method[m] is the number of packs written with method m in the
\* run, failed_count the number of needs-calculation packs without a written
\* price, and together they add up to the number of needs-calculation packs.
C13_ResultCarriesCounts ==
    \A h \in FinishedRuns :
        h.result = "True" =>
            /\ {"counts_by_method", "failed_count"} \subseteq DOMAIN Returned(h.result)
            /\ \A m \in Methods :
                  Returned(h.result).counts_by_method[m] =
                      Cardinality({a \in h.writes : h.price[a].calculation_method = m})
            /\ Returned(h.result).failed_count =
                   Cardinality(h.needs_calculation \ h.writes)

\* The scenario of C14 at the start of run h: pack F needs calculation, has
\* no priced sibling of its own product, and shares its virtual pack with
\* exactly three other packs, of three other products, priced 100, 120, 140.
RuleBScenario(h, F) ==
    LET others == {a \in Packs : a /= F /\ cat.ampp[a].vppid = cat.ampp[F].vppid}
    IN  /\ F \in h.needs_calculation
        /\ SameProductComparables(cat, h.start, F) = {}
        /\ Cardinality(others) = 3
        /\ Cardinality({cat.ampp[a].apid : a \in others \cup {F}}) = 4
        /\ \A a \in others : Priced(h.start, a)
        /\ {h.start[a].price : a \in others} = {100, 120, 140}

\* C14: in that scenario the fourth pack's PriceRecord holds, after the run,
\* price 120, method same_vmpp_different_brand and the confidence
\* 0.7 * (3/5) * (1 - min(stdev/120, 0.5)) that rule B computes from the
\* number and the spread of the comparables.
C14_RuleBEndToEnd ==
    \A h \in FinishedRuns :
        CleanRun(h) =>
            \A F \in Packs :
                RuleBScenario(h, F) =>
                    /\ h.price[F].price = 120
                    /\ h.price[F].calculation_method =
                           CALCULATION_METHODS.SAME_VMPP_DIFFERENT_BRAND
                    /\ h.price[F].confidence_score =
                           try_same_vmpp_different_brand(cat, h.start, F).confidence

\* What each rule gave in the latest loop iteration: the estimates it can
\* return on the table the iteration read, or nothing when it raised.
LastRuleA ==
    IF last.fault = "A" THEN {RuleRaised}
    ELSE try_same_product_different_size(cat, last.before, last.appid)

LastRuleB ==
    IF last.fault = "B" THEN {RuleRaised}
    ELSE {try_same_vmpp_different_brand(cat, last.before, last.appid)}

LastRuleC ==
    IF last.fault = "C" THEN {RuleRaised}
    ELSE try_similar_vmp(cat, last.before, last.appid)

Estimated(outcomes, price) == \E r \in outcomes : Truthy(r.price) /\ r.price = price

Empty(outcomes) == \E r \in outcomes : ~Truthy(r.price)

\* C15: the cascade hands back the estimate of the first of the rules A, B,
\* C that gives one: method A means A's estimate, method B that A gave none
\* and B's estimate, method C that neither A nor B gave one, no method that
\* none of the three did; and that method is the one recorded.
C15_CascadeOrder ==
    last.appid /= 0 =>
        /\ \/ /\ last.method = CALCULATION_METHODS.SAME_PRODUCT_DIFFERENT_SIZE
              /\ Estimated(LastRuleA, last.price)
           \/ /\ last.method = CALCULATION_METHODS.SAME_VMPP_DIFFERENT_BRAND
              /\ Empty(LastRuleA)
              /\ Estimated(LastRuleB, last.price)
           \/ /\ last.method = CALCULATION_METHODS.SIMILAR_VMP
              /\ Empty(LastRuleA)
              /\ Empty(LastRuleB)
              /\ Estimated(LastRuleC, last.price)
           \/ /\ last.method = None
              /\ Empty(LastRuleA)
              /\ Empty(LastRuleB)
              /\ Empty(LastRuleC)
        /\ (pc = "loop" /\ last.method /= None /\ last.fault /= "write") =>
               tx.price[last.appid].calculation_method = last.method

\* The cascade stopped at rule A although rule B had an estimate as well.
C15_Witness ==
    /\ last.appid /= 0
    /\ last.fault = "none"
    /\ last.method = CALCULATION_METHODS.SAME_PRODUCT_DIFFERENT_SIZE
    /\ Truthy(try_same_vmpp_different_brand(cat, last.before, last.appid).price)
    /\ tx.price[last.appid].calculation_method =
           CALCULATION_METHODS.SAME_PRODUCT_DIFFERENT_SIZE

\* Where pack a stands in the current run.
PackState(a) ==
    IF a \in intentionally_missing THEN "intentionally_missing"
    ELSE IF a \in writes THEN "calculated"
    ELSE IF a \in todo THEN "needs_calculation"
    ELSE IF a \in needs_calculation THEN "unresolved"
    ELSE "unclassified"

PackSteps ==
    {<<"unclassified", "intentionally_missing">>,
     <<"unclassified", "needs_calculation">>,
     <<"needs_calculation", "calculated">>,
     <<"needs_calculation", "unresolved">>}

InputSet == missing_price_ampp(cat, start)

PackStatesAgree ==
    /\ intentionally_missing \cap needs_calculation = {}
    /\ writes \subseteq needs_calculation
    /\ todo \subseteq needs_calculation \ writes
    /\ pc \in {"loop", "project", "return"} =>
           intentionally_missing \cup needs_calculation = InputSet
    /\ \A a \in intentionally_missing :
           tx.price[a].price_status /= PRICE_STATUS.CALCULATED
    /\ (pc = "idle" /\ result = "True") =>
           \A a \in InputSet :
               PackState(a) \in {"intentionally_missing", "calculated", "unresolved"}

\* C16: within a run every pack of the input set moves only along
\* unclassified -> intentionally_missing or unclassified -> needs_calculation
\* -> (calculated | unresolved); the classified sets are disjoint and cover
\* the input set, a pack classified intentionally_missing is never given a
\* calculated price, and when the run has returned every pack of the input
\* set is in one of the three terminal states.
C16_PackStateMachine ==
    /\ []PackStatesAgree
    /\ [][pc /= "idle" =>
             \A a \in Packs :
                 \/ PackState(a)' = PackState(a)
                 \/ <<PackState(a), PackState(a)'>> \in PackSteps]_vars

\* A run has returned that left aside, as intentionally missing, a pack for
\* which the cascade had an estimate.
C16_Witness ==
    /\ pc = "idle"
    /\ result = "True"
    /\ \E a \in intentionally_missing :
          \E out \in calculate_price_for_ampp(cat, tx.price, a, "none") :
              Truthy(out.price)

\* The attempt loops of the download so far: the finished ones and the one
\* that is running.
AttemptLoops ==
    {[requests |-> calls[i].requests, slept |-> calls[i].slept,
      outcome |-> calls[i].outcome] : i \in 1..Len(calls)}
        \cup (IF dl_pc \in {"request_json", "download_file"}
              THEN {[requests |-> requests_made, slept |-> slept, outcome |-> "running"]}
              ELSE {})

\* C17: download_dmd_files called with retry_count = n and retry_delay = d
\* makes at most n attempts for a request, sleeps d after every failed
\* attempt but the last, returns at the first attempt that succeeds and
\* raises DownloadError when the n-th attempt has failed.
C17_CallerRetriesGovern ==
    \A c \in AttemptLoops :
        /\ c.requests <= retry_count
        /\ \A i \in 1..Len(c.slept) : c.slept[i] = retry_delay
        /\ c.outcome = "returned" => Len(c.slept) = c.requests - 1
        /\ c.outcome = "DownloadError" =>
               c.requests = retry_count /\ Len(c.slept) = retry_count - 1

\* C18: download_dmd's get_latest_release_url and download_file raise
\* nothing on a connection error, a timeout or an HTTP error: the first
\* returns None, the second False.  get_latest_release_url also returns None
\* for an empty releases list or a first release without archiveFileUrl, and
\* the first release's archiveFileUrl when there is one.
C18_FailuresAreValues ==
    \A i \in 1..Len(dmd_calls) :
        LET c == dmd_calls[i]
            releases == c.reply.body.releases
        IN  /\ c.reply.kind \in {"ConnectionError", "Timeout", "HTTPError"} =>
                  /\ ~c.raised
                  /\ c.value = IF c.fn = "download_file" THEN "False" ELSE None
            /\ (c.fn = "get_latest_release_url" /\ c.reply.kind = "response"
                   /\ c.reply.body.has_releases) =>
                  /\ ~c.raised
                  /\ c.value = IF releases = << >> THEN None
                               ELSE IF ~releases[1].has_url THEN None
                               ELSE releases[1].archiveFileUrl

\* Both functions have answered a failed request with a value, and a release
\* list of two has given the first archive.
C18_Witness ==
    /\ \E i \in 1..Len(dmd_calls) :
          /\ dmd_calls[i].fn = "download_file"
          /\ dmd_calls[i].reply.kind = "Timeout"
          /\ dmd_calls[i].value = "False"
    /\ \E i \in 1..Len(dmd_calls) :
          /\ dmd_calls[i].fn = "get_latest_release_url"
          /\ Len(dmd_calls[i].reply.body.releases) = 2
          /\ dmd_calls[i].value = "u1"

RECURSIVE Ascending(_)
Ascending(S) ==
    IF S = {} THEN << >>
    ELSE <<LowestId(S)>> \o Ascending(S \ {LowestId(S)})

\* The price tables the loop can leave when it visits the packs in the given
\* order, starting from table P on day today.
RECURSIVE TablesInOrder(_, _, _)
TablesInOrder(P, order, today) ==
    IF order = << >> THEN {P}
    ELSE UNION {TablesInOrder(IF Truthy(out.price) /\ out.method /= None
                              THEN [P EXCEPT ![Head(order)] =
                                       update_ampp_price(P[Head(order)], out.price,
                                                         out.method, today)]
                              ELSE P,
                              Tail(order), today) :
                   out \in calculate_price_for_ampp(cat, P, Head(order), "none")}

\* What C19 compares: price, calculation_method and price_status per pack.
Outcome(P) ==
    [a \in Packs |-> <<P[a].price, P[a].calculation_method, P[a].price_status>>]

\* C19: the prices, methods and statuses a run leaves do not depend on the
\* order in which the loop visits the needs-calculation packs: whatever the
\* order of a finished run was, its outcome is one the ascending order gives
\* from the same initial store.
C19_OrderIndependent ==
    \A i \in 1..Len(history) :
        CleanRun(history[i]) =>
            Outcome(history[i].price) \in
                {Outcome(Q) :
                    Q \in TablesInOrder(
                             classify_missing_prices(cat, history[i].start, i),
                             Ascending(history[i].needs_calculation), i)}

\* C20: once a run has classified, every pack of its input set that is not
\* non-reimbursable and carries a discontinuation code or a discontinuation
\* date is classified discontinued.  (The store keeps both fields on the
\* pack; table amp has neither.)
C20_DiscontinuedByCodeOrDate ==
    pc \in {"loop", "project", "return"} =>
        \A a \in missing_price_ampp(cat, start) :
            (/\ ~ReasonHolds(a, 1)
             /\ cat.ampp[a].disc_code /= Null \/ cat.ampp[a].disc_date /= Null) =>
                /\ a \in intentionally_missing
                /\ tx.price[a].missing_reason = MISSING_PRICE_REASONS.DISCONTINUED

\* C21: every pack whose price enters rule B's mean shares the target's
\* virtual pack, is priced, and belongs to another product than the target:
\* a priced pack of the target's own product is never averaged in.
C21_RuleBOtherProducts ==
    (/\ last.appid /= 0
     /\ last.method = CALCULATION_METHODS.SAME_VMPP_DIFFERENT_BRAND) =>
        \A c \in SameVmppComparables(cat, last.before, last.appid) :
            /\ cat.ampp[c].vppid = cat.ampp[last.appid].vppid
            /\ Priced(last.before, c)
            /\ cat.ampp[c].apid /= cat.ampp[last.appid].apid

\* What rule C looks for on behalf of the pack of the latest iteration: the
\* first ingredient row and the first form row of the pack's virtual product.
LastMain ==
    LET vpid == VpidOf(cat, last.appid)
    IN  [name |-> IngredientsOf(cat, vpid)[1].name,
         strength |-> IngredientsOf(cat, vpid)[1].strength,
         uom_code |-> IngredientsOf(cat, vpid)[1].uom_code,
         form |-> FormsOf(cat, vpid)[1]]

\* C22: the comparables of rule C are at most 5 priced packs of virtual
\* products other than the target's, whose principal ingredient has the
\* target's ingredient name (equal, not merely containing it), the same
\* strength unit and the same form, in the target's pack unit; and no
\* candidate left out is nearer in strength than one taken.
C22_RuleCComparables ==
    (/\ last.appid /= 0
     /\ last.method = CALCULATION_METHODS.SIMILAR_VMP) =>
        \A S \in SimilarTopRows(cat, last.before, last.appid, LastMain) :
            /\ Cardinality({r.appid : r \in S}) <= SimilarLimit
            /\ \A r \in S :
                  LET vpid == VpidOf(cat, r.appid)
                  IN  /\ Priced(last.before, r.appid)
                      /\ vpid /= VpidOf(cat, last.appid)
                      /\ IngredientsOf(cat, vpid)[1].name = LastMain.name
                      /\ IngredientsOf(cat, vpid)[1].uom_code = LastMain.uom_code
                      /\ \E j \in 1..Len(FormsOf(cat, vpid)) :
                             FormsOf(cat, vpid)[j] = LastMain.form
                      /\ qty_uom_code(cat, r.appid) = qty_uom_code(cat, last.appid)
            /\ \A r \in S :
                  \A q \in SimilarRows(cat, last.before, last.appid, LastMain) \ S :
                      StrengthGap(cat, r, LastMain) <= StrengthGap(cat, q, LastMain)

\* The latest loop iteration called the writer and the writer returned.
LastWrote ==
    /\ pc \in {"loop", "project", "return"}
    /\ last.appid /= 0
    /\ Truthy(last.price)
    /\ last.method /= None
    /\ last.fault /= "write"

\* C23: the writer's one statement leaves the pack's PriceRecord with the
\* estimated price, as previous price the price the record held just before
\* (null when there was no record), the rule's calculation_method, a
\* confidence_score, price_status calculated and the day of the run as
\* calculation date; the PriceRecord of every other pack stays as it was.
C23_WriterEffect ==
    LastWrote =>
        LET row == tx.price[last.appid]
            was == last.before[last.appid]
        IN  /\ row.exists
            /\ row.price = last.price
            /\ row.price_prev = (IF was.exists THEN was.price ELSE Null)
            /\ row.calculation_method = last.method
            /\ row.confidence_score /= Null
            /\ row.price_status = PRICE_STATUS.CALCULATED
            /\ row.calculation_date = now
            /\ \A b \in Packs \ {last.appid} : tx.price[b] = last.before[b]

\* The writer has replaced a record that held price 0, next to another
\* pack's record.
C23_Witness ==
    /\ LastWrote
    /\ last.before[last.appid].exists
    /\ last.before[last.appid].price = 0
    /\ tx.price[last.appid].price_prev = 0
    /\ tx.price[last.appid].price > 0
    /\ \E b \in Packs \ {last.appid} : tx.price[b].exists

\* C24: once a run has classified, every pack matching one of the reasons
\* 1-4 has a PriceRecord with price_status intentionally_missing, the matched
\* reason, the day of the run and a null price; and every pack classified
\* unknown that the loop has not visited yet has its PriceRecord, or the lack
\* of one, exactly as at the start of the run.
C24_ClassifierEffect ==
    pc \in {"loop", "project", "return"} =>
        /\ \A a \in intentionally_missing :
               /\ tx.price[a].exists
               /\ tx.price[a].price_status = PRICE_STATUS.INTENTIONALLY_MISSING
               /\ tx.price[a].missing_reason = check_missing_price_reason(cat, a)
               /\ tx.price[a].missing_reason /= MISSING_PRICE_REASONS.UNKNOWN
               /\ tx.price[a].calculation_date = now
               /\ tx.price[a].price = Null
        /\ \A a \in todo : tx.price[a] = start[a]

\* The fields of a PriceRecord that C25 names.
RecordFields(row) ==
    <<row.exists, row.price, row.price_prev, row.price_status, row.calculation_method,
      row.missing_reason, row.confidence_score>>

AtProjection == pc \in {"project", "return"}

\* C26: in every run the projection starts only when every classification
\* and price write of the run is committed; the search entries are written
\* by no other step of a run; and from the start of the projection to the
\* end of the run no PriceRecord is written and the committed store is not
\* modified again.
C26_ProjectionLast ==
    /\ [](AtProjection => (db.price = tx.price /\ todo = {}))
    /\ [][(tx.search' /= tx.search /\ pc' /= "idle") => pc = "project"]_vars
    /\ [][AtProjection => (tx.price' = tx.price /\ db' = db)]_vars

\* The projection has run after a commit that carried a calculated price.
C26_Witness ==
    /\ pc = "return"
    /\ writes /= {}
    /\ db.price = tx.price
    /\ db.price /= start
    /\ tx.search /= db.search

LegacyRules == <<"initial", "same_vmpp", "same_vmp", "default">>

RuleNumber(rule) == CHOOSE i \in 1..4 : LegacyRules[i] = rule

\* The packs the first three rules of the earlier pipeline have written.
WrittenByRule ==
    UNION {legacy_log[i].rows : i \in {j \in 1..Len(legacy_log) :
                                          legacy_log[j].rule /= "default"}}

C28_CalculatedIsPositive ==
    /\ \A P \in Tables : \A a \in Packs :
           P[a].price_status = PRICE_STATUS.CALCULATED => P[a].price > 0
    /\ last.appid /= 0 =>
           /\ last.price /= 0
           /\ (\A r \in LastRuleA : r.price = 0) =>
                  last.method /= CALCULATION_METHODS.SAME_PRODUCT_DIFFERENT_SIZE
           /\ (\A r \in LastRuleC : r.price = 0) =>
                  last.method /= CALCULATION_METHODS.SIMILAR_VMP
    /\ (pc = "loop" /\ last.appid /= 0 /\ ~Truthy(last.price)) =>
           /\ last.appid \notin writes
           /\ tx.price[last.appid] = last.before[last.appid]
    /\ pc = "loop" =>
           failed_calculations = Cardinality((needs_calculation \ todo) \ writes)

\* Rule A's estimate for the pack was 0: the cascade went on, found nothing,
\* and the pack was counted as failed with no record written.
C28_Witness ==
    /\ pc = "loop"
    /\ last.appid /= 0
    /\ last.fault = "none"
    /\ \E r \in LastRuleA :
          r.price = 0 /\ r.method = CALCULATION_METHODS.SAME_PRODUCT_DIFFERENT_SIZE
    /\ last.price = Null
    /\ last.appid \notin writes
    /\ failed_calculations >= 1

\* What C29 says stays: price, previous price, method and confidence.
Audit(row) == <<row.price, row.price_prev, row.calculation_method, row.confidence_score>>

PricedPacks(P) == {a \in Packs : Priced(P, a)}

Settled(row) == <<row.price, row.calculation_method, row.confidence_score,
                  row.price_status, row.missing_reason>>

SameSettled(P, Q) == \A a \in Packs : Settled(P[a]) = Settled(Q[a])

\* The packs without a price when the first run began.
UnpricedAtFirst == missing_price_ampp(cat, history[1].start)

====
